---- MODULE Spec2Model ----
(***************************************************************************)
(* The two components of the lesson, MultiButton and Login, together with  *)
(* the part of the host (React and the browser) that their handlers        *)
(* observe: rendering, the dispatch of one interaction event at a time,    *)
(* the call of the registered handler, the console and the default action  *)
(* of a form submission.                                                   *)
(***************************************************************************)
EXTENDS Integers, Sequences, FiniteSets, TLC

\* Bounds of the model.
MaxEvents == 3
MaxRenders == 2
MaxCoord == 1

\* Contents the user can give to a text field.
FieldValues == {"", "a"}

VARIABLES
    mbTree,       \* what MultiButton rendered last (NotRendered before the first pass)
    loginTree,    \* what Login rendered last
    renders,      \* number of render passes of each component so far
    username,     \* value of the DOM input named "username"
    password,     \* value of the DOM input named "password"
    event,        \* the interaction event the host is dispatching, NoEvent otherwise
    frame,        \* activation frame of the running handler: its name and arguments
    pc,           \* position of the single thread: idle, a handler line, or returned
    console,      \* the messages console.log has received, in order
    navigations,  \* default actions (form submissions to the network) performed
    trace         \* the host's record of the events it dispatched

vars == <<mbTree, loginTree, renders, username, password, event, frame, pc,
          console, navigations, trace>>

---------------------------------------------------------------------------
\* JavaScript values that reach the handlers.

Num(n) == [tag |-> "number", val |-> n]
Obj(id) == [tag |-> "object", ref |-> id]
Undefined == [tag |-> "undefined"]

Digit == <<"0", "1", "2", "3", "4", "5", "6", "7", "8", "9">>

RECURSIVE NumberToString(_)
NumberToString(n) ==
    IF n < 10 THEN Digit[n + 1]
    ELSE NumberToString(n \div 10) \o Digit[(n % 10) + 1]

\* The string conversion a template literal applies to an interpolated value.
Interpolate(v) ==
    CASE v.tag = "number" -> NumberToString(v.val)
      [] v.tag = "object" -> "[object Object]"
      [] OTHER -> "undefined"

\* `Button ${number} was clicked`
ButtonMessage(number) == "Button " \o Interpolate(number) \o " was clicked"

SubmitMessage == "I submit"

---------------------------------------------------------------------------
\* Function values given as event-handler props, and their call by the host.

\* A reference to a function declared in the component: the host calls it
\* with the event as its only argument.
FunctionRef(name) == [target |-> name, bound |-> <<>>, passEvent |-> TRUE]

\* An arrow function () => name(arg): calls name with arg, drops the event.
ArrowCall(name, arg) == [target |-> name, bound |-> <<arg>>, passEvent |-> FALSE]

\* The frame of the callee when the host calls `callable` with `ev`.
Call(callable, ev) ==
    [fn |-> callable.target,
     args |-> callable.bound \o (IF callable.passEvent THEN <<ev>> ELSE <<>>)]

\* The i-th parameter of the running handler (undefined when not supplied).
Param(fr, i) == IF i <= Len(fr.args) THEN fr.args[i] ELSE Undefined

NoFrame == [fn |-> "none", args |-> <<>>]
NoEvent == [type |-> "none"]
NotRendered == [tag |-> "none"]

---------------------------------------------------------------------------
\* The render functions.

Button(label, onClick) == [tag |-> "button", label |-> label, onClick |-> onClick]

MultiButton_closures ==
    [tag |-> "div",
     children |-> << Button("Button 1", ArrowCall("handleClick", Num(1))),
                     Button("Button 2", ArrowCall("handleClick", Num(2))),
                     Button("Button 3", ArrowCall("handleClick", Num(3))) >>]

MultiButton_duplicate ==
    [tag |-> "div",
     children |-> << Button("Button 1", FunctionRef("handleClick")),
                     Button("Button 2", FunctionRef("handleClick")),
                     Button("Button 2", FunctionRef("handleClick")) >>]

MultiButton ==
    [tag |-> "div",
     children |-> << Button("Button 1", FunctionRef("handleClick")),
                     Button("Button 2", FunctionRef("handleClick")),
                     Button("Button 3", FunctionRef("handleClick")) >>]

Login ==
    [tag |-> "form",
     onSubmit |-> FunctionRef("handleSubmit"),
     children |-> << [tag |-> "input", type |-> "text", name |-> "username"],
                     [tag |-> "input", type |-> "password", name |-> "password"],
                     [tag |-> "button", label |-> "Login"] >>]

---------------------------------------------------------------------------
Init ==
    /\ mbTree = NotRendered
    /\ loginTree = NotRendered
    /\ renders = [MultiButton |-> 0, Login |-> 0]
    /\ username = ""
    /\ password = ""
    /\ event = NoEvent
    /\ frame = NoFrame
    /\ pc = "idle"
    /\ console = <<>>
    /\ navigations = 0
    /\ trace = <<>>

\* A render pass of MultiButton that invokes handleClick(n) for each prop
\* instead of passing the function.
RenderMultiButton_invoking ==
    /\ pc = "idle"
    /\ renders.MultiButton < MaxRenders
    /\ mbTree' = MultiButton
    /\ renders' = [renders EXCEPT !.MultiButton = @ + 1]
    /\ console' = console \o <<ButtonMessage(Num(1)), ButtonMessage(Num(2)),
                               ButtonMessage(Num(3))>>
    /\ UNCHANGED <<loginTree, username, password, event, frame, pc,
                   navigations, trace>>

\* A render pass of MultiButton: the function body runs and returns the tree.
RenderMultiButton ==
    /\ pc = "idle"
    /\ renders.MultiButton < MaxRenders
    /\ mbTree' = MultiButton
    /\ renders' = [renders EXCEPT !.MultiButton = @ + 1]
    /\ UNCHANGED <<loginTree, username, password, event, frame, pc, console,
                   navigations, trace>>

\* A render pass of Login.  The inputs are uncontrolled: their values are kept.
RenderLogin ==
    /\ pc = "idle"
    /\ renders.Login < MaxRenders
    /\ loginTree' = Login
    /\ renders' = [renders EXCEPT !.Login = @ + 1]
    /\ UNCHANGED <<mbTree, username, password, event, frame, pc, console,
                   navigations, trace>>

\* The user edits the text field; no listener is registered on it.
TypeUsername(v) ==
    /\ pc = "idle"
    /\ loginTree # NotRendered
    /\ v # username
    /\ username' = v
    /\ UNCHANGED <<mbTree, loginTree, renders, password, event, frame, pc,
                   console, navigations, trace>>

\* The user edits the masked field; no listener is registered on it.
TypePassword(v) ==
    /\ pc = "idle"
    /\ loginTree # NotRendered
    /\ v # password
    /\ password' = v
    /\ UNCHANGED <<mbTree, loginTree, renders, username, event, frame, pc,
                   console, navigations, trace>>

\* The host's record of a dispatch, opened when the handler is called.
Dispatched(ev, form) ==
    [type |-> ev.type, target |-> ev.target, clientX |-> ev.clientX,
     form |-> form, from |-> Len(console), to |-> Len(console),
     prevented |-> FALSE, navigated |-> FALSE, done |-> FALSE]

\* The user clicks the n-th button at horizontal position x: the host builds
\* the click event and calls the button's onClick prop with it.
Click(n, x) ==
    /\ pc = "idle"
    /\ mbTree # NotRendered
    /\ n \in 1..Len(mbTree.children)
    /\ Len(trace) < MaxEvents
    /\ LET ev == [id |-> Len(trace) + 1, type |-> "click", target |-> n,
                  clientX |-> x, defaultPrevented |-> FALSE]
       IN  /\ event' = ev
           /\ frame' = Call(mbTree.children[n].onClick, Obj(ev.id))
           /\ trace' = Append(trace, Dispatched(ev, <<>>))
    /\ pc' = "handleClick_3"
    /\ UNCHANGED <<mbTree, loginTree, renders, username, password, console,
                   navigations>>

\* The user submits the form (the Login button or Enter): the host builds the
\* submit event and calls the form's onSubmit prop with it.
Submit ==
    /\ pc = "idle"
    /\ loginTree # NotRendered
    /\ Len(trace) < MaxEvents
    /\ LET ev == [id |-> Len(trace) + 1, type |-> "submit", target |-> 0,
                  clientX |-> 0, defaultPrevented |-> FALSE]
       IN  /\ event' = ev
           /\ frame' = Call(loginTree.onSubmit, Obj(ev.id))
           /\ trace' = Append(trace, Dispatched(ev, <<username, password>>))
    /\ pc' = "handleSubmit_5"
    /\ UNCHANGED <<mbTree, loginTree, renders, username, password, console,
                   navigations>>

\* handleClick that logs its message twice.
handleClick_twice ==
    /\ pc = "handleClick_3"
    /\ console' = console \o <<ButtonMessage(Param(frame, 1)),
                               ButtonMessage(Param(frame, 1))>>
    /\ frame' = NoFrame
    /\ pc' = "returned"
    /\ UNCHANGED <<mbTree, loginTree, renders, username, password, event,
                   navigations, trace>>

\* handleClick that logs how many messages the console already holds.
handleClick_counting ==
    /\ pc = "handleClick_3"
    /\ console' = Append(console, ButtonMessage(Num(Len(console))))
    /\ frame' = NoFrame
    /\ pc' = "returned"
    /\ UNCHANGED <<mbTree, loginTree, renders, username, password, event,
                   navigations, trace>>

\* handleClick whose parameter stays referenced after it returns.
handleClick_retaining ==
    /\ pc = "handleClick_3"
    /\ console' = Append(console, ButtonMessage(Param(frame, 1)))
    /\ pc' = "returned"
    /\ UNCHANGED <<mbTree, loginTree, renders, username, password, event,
                   frame, navigations, trace>>

\* handleClick(number): logs the template literal and returns.
handleClick ==
    /\ pc = "handleClick_3"
    /\ console' = Append(console, ButtonMessage(Param(frame, 1)))
    /\ frame' = NoFrame
    /\ pc' = "returned"
    /\ UNCHANGED <<mbTree, loginTree, renders, username, password, event,
                   navigations, trace>>

\* handleSubmit without the call of preventDefault.
handleSubmit_noPrevent ==
    \/ /\ pc = "handleSubmit_5"
       /\ pc' = "handleSubmit_6"
       /\ UNCHANGED <<mbTree, loginTree, renders, username, password, event,
                      frame, console, navigations, trace>>
    \/ /\ pc = "handleSubmit_6"
       /\ console' = Append(console, SubmitMessage)
       /\ frame' = NoFrame
       /\ pc' = "returned"
       /\ UNCHANGED <<mbTree, loginTree, renders, username, password, event,
                      navigations, trace>>

\* handleSubmit with its two statements in the other order.
handleSubmit_logFirst ==
    \/ /\ pc = "handleSubmit_5"
       /\ console' = Append(console, SubmitMessage)
       /\ pc' = "handleSubmit_6"
       /\ UNCHANGED <<mbTree, loginTree, renders, username, password, event,
                      frame, navigations, trace>>
    \/ /\ pc = "handleSubmit_6"
       /\ Param(frame, 1) = Obj(event.id)
       /\ event' = [event EXCEPT !.defaultPrevented = TRUE]
       /\ frame' = NoFrame
       /\ pc' = "returned"
       /\ UNCHANGED <<mbTree, loginTree, renders, username, password, console,
                      navigations, trace>>

\* handleSubmit that logs the username it finds in the form.
handleSubmit_readsField ==
    \/ /\ pc = "handleSubmit_5"
       /\ Param(frame, 1) = Obj(event.id)
       /\ event' = [event EXCEPT !.defaultPrevented = TRUE]
       /\ pc' = "handleSubmit_6"
       /\ UNCHANGED <<mbTree, loginTree, renders, username, password, frame,
                      console, navigations, trace>>
    \/ /\ pc = "handleSubmit_6"
       /\ console' = Append(console, SubmitMessage \o username)
       /\ frame' = NoFrame
       /\ pc' = "returned"
       /\ UNCHANGED <<mbTree, loginTree, renders, username, password, event,
                      navigations, trace>>

\* handleSubmit(event): line 5 cancels the default action of the event it was
\* given, line 6 logs the fixed message, then the handler returns.
handleSubmit ==
    \/ /\ pc = "handleSubmit_5"
       /\ Param(frame, 1) = Obj(event.id)
       /\ event' = [event EXCEPT !.defaultPrevented = TRUE]
       /\ pc' = "handleSubmit_6"
       /\ UNCHANGED <<mbTree, loginTree, renders, username, password, frame,
                      console, navigations, trace>>
    \/ /\ pc = "handleSubmit_6"
       /\ console' = Append(console, SubmitMessage)
       /\ frame' = NoFrame
       /\ pc' = "returned"
       /\ UNCHANGED <<mbTree, loginTree, renders, username, password, event,
                      navigations, trace>>

\* Whether the host performs the default action of ev once its handler is back:
\* a submit event that was not cancelled makes the form's network request.
DefaultAction(ev) == ev.type = "submit" /\ ~ev.defaultPrevented

\* The handler has returned: the host performs the default action unless it
\* was cancelled, closes its record of the dispatch and releases the event.
CompleteDispatch ==
    /\ pc = "returned"
    /\ navigations' = IF DefaultAction(event) THEN navigations + 1 ELSE navigations
    /\ trace' = [trace EXCEPT ![Len(trace)] =
                    [@ EXCEPT !.to = Len(console),
                              !.prevented = event.defaultPrevented,
                              !.navigated = DefaultAction(event),
                              !.done = TRUE]]
    /\ event' = NoEvent
    /\ pc' = "idle"
    /\ UNCHANGED <<mbTree, loginTree, renders, username, password, frame, console>>

Next ==
    \/ RenderMultiButton
    \/ RenderLogin
    \/ \E v \in FieldValues : TypeUsername(v)
    \/ \E v \in FieldValues : TypePassword(v)
    \/ \E n \in 1..3, x \in 0..MaxCoord : Click(n, x)
    \/ Submit
    \/ handleClick
    \/ handleSubmit
    \/ CompleteDispatch

Spec == Init /\ [][Next]_vars

---------------------------------------------------------------------------
\* What the properties below read off the state.

\* The dispatches whose handler has returned and which the host has closed.
Completed == {i \in 1..Len(trace) : trace[i].done}

CompletedClicks == {i \in Completed : trace[i].type = "click"}

CompletedSubmits == {i \in Completed : trace[i].type = "submit"}

\* The messages the console received during the i-th dispatch.
Emitted(i) == SubSeq(console, trace[i].from + 1, trace[i].to)

\* Every message handleClick can produce, whatever its argument.
ButtonMessages ==
    {ButtonMessage(v) : v \in {Num(n) : n \in 0..9} \cup {Obj(0), Undefined}}

\* The positions of the console that hold a message of handleClick.
ButtonEmissions == {k \in 1..Len(console) : console[k] \in ButtonMessages}

\* The integers n whose decimal form the label "Button n" carries.
TriggerIds(label) == {n \in 0..9 : label = "Button " \o NumberToString(n)}

---------------------------------------------------------------------------
\* C1: activating trigger n emits exactly the message "Button n was clicked",
\* for every n in 1..3 and every event the host passes.
C1_ClickLogsButtonNumber ==
    \A i \in CompletedClicks :
        Emitted(i) = <<"Button " \o NumberToString(trace[i].target) \o " was clicked">>

\* C2: as long as no trigger has been activated, however many render passes
\* have run, the console holds no message of handleClick.
C2_RenderAloneEmitsNothing ==
    (\A i \in 1..Len(trace) : trace[i].type # "click") => ButtonEmissions = {}

C2_Witness ==
    /\ renders.MultiButton >= 2
    /\ mbTree # NotRendered
    /\ pc = "idle"
    /\ \A i \in 1..Len(trace) : trace[i].type # "click"

\* C3: no submission lets the host perform the default action: every closed
\* submission was cancelled and the count of default actions stays 0.
C3_NoDefaultAction ==
    /\ navigations = 0
    /\ \A i \in CompletedSubmits : trace[i].prevented /\ ~trace[i].navigated

C3_Witness ==
    /\ navigations = 0
    /\ \E i, j \in CompletedSubmits :
          /\ trace[i].form = <<"", "">>
          /\ trace[j].form = <<"a", "a">>

\* C4: every submission emits exactly one message, "I submit", whatever the
\* username and password fields hold.
C4_SubmitEmitsFixedMessage ==
    \A i \in CompletedSubmits : Emitted(i) = <<"I submit">>

C4_Witness ==
    \E i, j \in CompletedSubmits :
        /\ trace[i].form = <<"", "">>
        /\ trace[j].form # <<"", "">>
        /\ Emitted(i) = Emitted(j)

\* C5: within a run of handleSubmit the default action is cancelled before
\* anything else: once the first statement is passed, and whenever the message
\* of the current submission is on the console, the event is cancelled.
C5_PreventBeforeLog ==
    event # NoEvent /\ event.type = "submit" =>
        /\ pc # "handleSubmit_5" => event.defaultPrevented
        /\ Len(console) > trace[Len(trace)].from => event.defaultPrevented

C5_Witness ==
    /\ pc = "handleSubmit_6"
    /\ event.defaultPrevented
    /\ Len(console) = trace[Len(trace)].from

\* C6: k activations dispatched one at a time leave exactly k messages of
\* handleClick, one per activation and in dispatch order; a handler has
\* returned before the next event is dispatched.
C6_OneMessagePerActivation ==
    /\ \A i \in CompletedClicks : trace[i].to = trace[i].from + 1
    /\ \A i \in 1..Len(trace) : i < Len(trace) => trace[i].done
    /\ \A i, j \in 1..Len(trace) : i < j => trace[i].to <= trace[j].from
    /\ pc = "idle" =>
          Cardinality(ButtonEmissions) =
              Cardinality({i \in 1..Len(trace) : trace[i].type = "click"})

C6_Witness ==
    /\ pc = "idle"
    /\ Len(trace) = MaxEvents
    /\ \A i \in 1..Len(trace) : trace[i].type = "click"
    /\ Len(console) = MaxEvents

\* C7: as shipped, handleClick receives the click event as its `number`
\* parameter, and the message logged is the one of an object,
\* "Button [object Object] was clicked", whichever button was clicked.
C7_ShippedHandlerLogsEventObject ==
    /\ pc = "handleClick_3" => Param(frame, 1) = Obj(event.id)
    /\ \A i \in CompletedClicks :
          Emitted(i) = <<"Button [object Object] was clicked">>

C7_Witness ==
    \A n \in 1..3 : \E i \in CompletedClicks : trace[i].target = n

\* What handling an event yields, as a function of the component it targets
\* alone: the messages, whether it was cancelled, whether the host navigated.
Outcome(type) ==
    IF type = "click"
    THEN [emitted |-> <<"Button [object Object] was clicked">>,
          prevented |-> FALSE, navigated |-> FALSE]
    ELSE [emitted |-> <<"I submit">>, prevented |-> TRUE, navigated |-> FALSE]

\* C8: what a dispatch yields depends on the event and its component only:
\* in every history, every dispatch of a given kind yields the same messages
\* and the same cancellation, whatever was rendered, typed, clicked or
\* submitted before it.
C8_OutcomeIndependentOfHistory ==
    \A i \in Completed :
        [emitted |-> Emitted(i), prevented |-> trace[i].prevented,
         navigated |-> trace[i].navigated] = Outcome(trace[i].type)

C8_Witness ==
    \E i, j, k \in Completed :
        /\ i < k /\ k < j
        /\ trace[i].type = "click" /\ trace[j].type = "click"
        /\ trace[i].target = trace[j].target
        /\ trace[k].type = "submit"
        /\ Emitted(i) = Emitted(j)

\* C9: a reference to an event is held only by the frame of the handler that
\* is running on it; once the handler has returned nothing refers to the
\* event, before and after the host releases it.
C9_NoEventRetained ==
    /\ pc \in {"idle", "returned"} => frame = NoFrame
    /\ event = NoEvent => frame = NoFrame
    /\ \A k \in 1..Len(frame.args) :
          frame.args[k].tag = "object" =>
              event # NoEvent /\ frame.args[k].ref = event.id

C9_Witness ==
    /\ pc = "returned"
    /\ event # NoEvent /\ event.type = "submit"
    /\ frame = NoFrame
    /\ CompletedClicks # {}

\* C10: every render pass yields exactly three triggers, the k-th carrying the
\* identifier k and no other: identifiers from 1..3, pairwise distinct, and
\* the same on every pass.
C10_ThreeDistinctIdentifiers ==
    mbTree # NotRendered =>
        /\ Len(mbTree.children) = 3
        /\ \A k \in 1..Len(mbTree.children) :
              TriggerIds(mbTree.children[k].label) = {k}

C10_Witness ==
    /\ renders.MultiButton >= 2
    /\ mbTree # NotRendered
    /\ Len(trace) > 0

====
